---- MODULE Spec2Model ----
(***************************************************************************)
(* A model of tsjoi (src/tsjoi.ts): the translation of TypeScript          *)
(* interfaces and type aliases into Joi schema source text.                *)
(*                                                                         *)
(* Text is modelled by TLA+ strings, built with \o exactly as the source   *)
(* builds it with template literals, + and join.  The TypeScript parser is *)
(* external: a source text is identified with the list of statements       *)
(* ts.createSourceFile returns for it, and a node is a record carrying the *)
(* fields the source reads (kind, types, elementType, members, typeName,   *)
(* escapedText, literal, name, type, questionToken).  The null of a type   *)
(* position is a node of kind NullKeyword, as the case label of line 64    *)
(* and the test of line 18 take it to be.                                  *)
(*                                                                         *)
(* A JavaScript completion is a record [kind, value]: kind "string" (a     *)
(* string), "null" (null), "array" (an array of completions) or "throw"    *)
(* (a thrown Error, value its message without the node text that           *)
(* getText() appends).                                                     *)
(***************************************************************************)
EXTENDS FiniteSets, Integers, Sequences, TLC

VARIABLES
  SUFFIX,     \* the process-wide suffix (line 6)
  txt,        \* ts2joi: the source of the last call, as its statement list
  options,    \* ts2joi: the options of the last call, a set of <<key, value>>
  result,     \* ts2joi: the completion of the last call
  first,      \* ts2joi: the first call of the process and its completion
  before,     \* ts2joi: the value SUFFIX held when the last call began
  fn,         \* render calls: the function invoked
  args,       \* render calls: its arguments
  ret         \* render calls: the completion of the call

vars == <<SUFFIX, txt, options, result, first, before, fn, args, ret>>

----------------------------------------------------------------------------
(* Bounds of the model.                                                    *)

MaxDepth == 2       \* nesting depth of the type expressions drawn
MaxMembers == 2     \* length of the member lists drawn for propList2joi
MaxNest == 1        \* indents drawn are 0, 2, .., 2 * MaxNest
MaxStatements == 3  \* number of top-level statements of a source text

----------------------------------------------------------------------------
(* JavaScript completions and string helpers.                              *)

Str(s) == [kind |-> "string", value |-> s]
\* a returned null; join renders it as the empty string, its value here
Null == [kind |-> "null", value |-> ""]
Throw(msg) == [kind |-> "throw", value |-> msg]
NotCalled == [kind |-> "none", value |-> ""]

\* c + s: a throw propagates, a string is extended
plus(c, s) == IF c.kind = "throw" THEN c ELSE Str(c.value \o s)

\* s + c: a throw propagates, a string is extended
prepend(s, c) == IF c.kind = "throw" THEN c ELSE Str(s \o c.value)

\* Array.prototype.join over completions: a null adds the empty string
RECURSIVE join(_, _)
join(array, sep) ==
  IF Len(array) = 0 THEN ""
  ELSE IF Len(array) = 1 THEN array[1].value
  ELSE array[1].value \o sep \o join(Tail(array), sep)

\* Array(indent).fill(' ').join('')
RECURSIVE fill(_)
fill(indent) == IF indent = 0 THEN "" ELSE " " \o fill(indent - 1)

endsWith(s, t) ==
  Len(s) >= Len(t) /\ SubSeq(s, Len(s) - Len(t) + 1, Len(s)) = t

\* the first throw among the completions cs
firstThrow(cs) ==
  LET bad == {i \in DOMAIN cs : cs[i].kind = "throw"}
  IN cs[CHOOSE i \in bad : \A j \in bad : i <= j]

\* Array.prototype.map, given the completions cs of the callback on the
\* elements in order: the first throw, else the array of the values
map(cs) ==
  IF \E i \in DOMAIN cs : cs[i].kind = "throw"
  THEN firstThrow(cs)
  ELSE [kind |-> "array", value |-> cs]

\* c.filter(x => x !== null)
filterNotNull(c) ==
  IF c.kind = "throw" THEN c
  ELSE [kind |-> "array", value |-> SelectSeq(c.value, LAMBDA x : x.kind # "null")]

\* c.join(sep)
joined(c, sep) == IF c.kind = "throw" THEN c ELSE Str(join(c.value, sep))

----------------------------------------------------------------------------
(* Syntax nodes.                                                           *)

Identifier(s) == [kind |-> "Identifier", escapedText |-> s]
StringLiteral(s) == [kind |-> "StringLiteral", text |-> s]
QualifiedName(s) == [kind |-> "QualifiedName", text |-> s]
Keyword(k, s) == [kind |-> k, text |-> s]
LiteralType(lit) == [kind |-> "LiteralType", literal |-> lit]
UnionType(ts) == [kind |-> "UnionType", types |-> ts]
ArrayType(t) == [kind |-> "ArrayType", elementType |-> t]
TypeLiteral(ms) == [kind |-> "TypeLiteral", members |-> ms]
TypeReference(n) == [kind |-> "TypeReference", typeName |-> n]
TupleType == [kind |-> "TupleType", text |-> "[string, number]"]
NoType == [kind |-> "undefined"]
PropertySignature(n, t, q) ==
  [kind |-> "PropertySignature", name |-> n, type |-> t, questionToken |-> q]
MethodSignature(n) == [kind |-> "MethodSignature", name |-> n]
InterfaceDeclaration(n, ms) ==
  [kind |-> "InterfaceDeclaration", name |-> Identifier(n), members |-> ms]
TypeAliasDeclaration(n, t) ==
  [kind |-> "TypeAliasDeclaration", name |-> Identifier(n), type |-> t]
ClassDeclaration(n, ms) ==
  [kind |-> "ClassDeclaration", name |-> Identifier(n), members |-> ms]
VariableStatement(n, t) ==
  [kind |-> "VariableStatement", name |-> Identifier(n), type |-> t]

getText(node) ==
  IF node.kind = "Identifier" THEN node.escapedText ELSE node.text

isIdentifier(node) == node.kind = "Identifier"
isPropertySignature(node) == node.kind = "PropertySignature"
isLiteralTypeNode(node) == node.kind = "LiteralType"
isStringLiteral(node) == node.kind = "StringLiteral"
isInterfaceDeclaration(node) == node.kind = "InterfaceDeclaration"
isTypeAliasDeclaration(node) == node.kind = "TypeAliasDeclaration"

\* the kinds of the first case group of type2joi's switch
KeywordKinds ==
  {"AnyKeyword", "NumberKeyword", "ObjectKeyword", "BooleanKeyword",
   "StringKeyword", "SymbolKeyword", "ThisKeyword", "VoidKeyword",
   "UndefinedKeyword", "NullKeyword", "NeverKeyword"}

----------------------------------------------------------------------------
(* The renderers, lines 8-98.  Each takes as its first parameter S the      *)
(* value the process-wide SUFFIX holds when the call runs: the source      *)
(* reads the global (line 46), and the callers below pass the variable.    *)

\* all(predicate, array), given the values of predicate over array
all(tests) == \A i \in DOMAIN tests : tests[i]

RECURSIVE type2joi(_, _, _, _)
RECURSIVE propList2joi(_, _, _)

\* the test of line 25 and the text of lines 26-29
isStringLiteralUnion(tp) ==
  all([i \in DOMAIN tp.types |->
         isLiteralTypeNode(tp.types[i]) /\ isStringLiteral(tp.types[i].literal)])

stringLiteralUnion2joi(tp) ==
  LET values == [i \in DOMAIN tp.types |->
                   Str("\"" \o tp.types[i].literal.text \o "\"")]
  IN Str("Joi.string().valid([" \o join(values, ", ") \o "])")

\* a slip of union2joi: the nullable case without the test of the length
union2joi_anyLength(S, tp) ==
  LET types == [i \in DOMAIN tp.types |-> tp.types[i].kind]
  IN IF \E i \in DOMAIN types : types[i] = "NullKeyword"
     THEN LET notnull == IF types[1] = "NullKeyword"
                         THEN tp.types[2] ELSE tp.types[1]
          IN plus(type2joi(S, notnull, FALSE, 0), ".allow(null)")
     ELSE IF isStringLiteralUnion(tp) THEN stringLiteralUnion2joi(tp)
     ELSE Throw("Cannot convert the following type yet: ")

\* a slip of union2joi: the non-null member is always taken to be the first
union2joi_firstMember(S, tp) ==
  LET types == [i \in DOMAIN tp.types |-> tp.types[i].kind]
  IN IF Len(tp.types) = 2 /\ \E i \in DOMAIN types : types[i] = "NullKeyword"
     THEN plus(type2joi(S, tp.types[1], FALSE, 0), ".allow(null)")
     ELSE IF isStringLiteralUnion(tp) THEN stringLiteralUnion2joi(tp)
     ELSE Throw("Cannot convert the following type yet: ")

union2joi(S, tp) ==
  LET types == [i \in DOMAIN tp.types |-> tp.types[i].kind]
  IN IF Len(tp.types) = 2 /\ \E i \in DOMAIN types : types[i] = "NullKeyword"
     THEN LET notnull == IF types[1] = "NullKeyword"
                         THEN tp.types[2] ELSE tp.types[1]
          IN plus(type2joi(S, notnull, FALSE, 0), ".allow(null)")
     ELSE IF isStringLiteralUnion(tp) THEN stringLiteralUnion2joi(tp)
     ELSE Throw("Cannot convert the following type yet: ")

array2joi(S, tp) ==
  plus(prepend("Joi.array().items(", type2joi(S, tp.elementType, FALSE, 0)),
       ")")

literal2joi(S, tp, indent) == propList2joi(S, tp.members, indent)

reference2joi(S, tp) ==
  IF isIdentifier(tp.typeName)
  THEN Str(tp.typeName.escapedText \o S)
  ELSE Throw("Cannot convert QualifiedName yet: ")

type2joi(S, tp, required, indent) ==
  LET r == IF required THEN ".required()" ELSE ""
  IN CASE tp.kind \in KeywordKinds -> Str("Joi." \o getText(tp) \o "()" \o r)
       [] tp.kind = "UnionType" -> plus(union2joi(S, tp), r)
       [] tp.kind = "ArrayType" -> plus(array2joi(S, tp), r)
       [] tp.kind = "TypeLiteral" -> plus(literal2joi(S, tp, indent), r)
       [] tp.kind = "TypeReference" -> plus(reference2joi(S, tp), r)
       [] OTHER -> Throw("Cannot convert type yet")

\* a slip of prop2joi: the optional marker read the wrong way round
prop2joi_inverted(S, prop, indent) ==
  IF isIdentifier(prop.name) /\ prop.type # NoType
  THEN LET required == IF prop.questionToken THEN TRUE ELSE FALSE
           prefix == fill(indent)
       IN prepend(prefix \o prop.name.escapedText \o ": ",
                  type2joi(S, prop.type, required, indent))
  ELSE Null

prop2joi(S, prop, indent) ==
  IF isIdentifier(prop.name) /\ prop.type # NoType
  THEN LET required == IF prop.questionToken THEN FALSE ELSE TRUE
           prefix == fill(indent)
       IN prepend(prefix \o prop.name.escapedText \o ": ",
                  type2joi(S, prop.type, required, indent))
  ELSE Null

propList2joi(S, members, indent) ==
  LET prefix == fill(indent)
      kept == SelectSeq(SelectSeq(members, isPropertySignature),
                        LAMBDA x : isIdentifier(x.name))
      props == joined(map([i \in DOMAIN kept |->
                             prop2joi(S, kept[i], indent + 2)]),
                      ",\n")
  IN plus(prepend("Joi.object({\n", props), "\n" \o prefix \o "})")

----------------------------------------------------------------------------
(* Declarations and the module compiler, lines 100-162.                    *)

\* a slip of makeTypeGuard: the asserted type is the schema's suffixed name
makeTypeGuard_suffixedType(name, type, schema) ==
  "export function " \o name \o "(obj: any): obj is T." \o schema \o " {\n" \o
  "  return " \o schema \o ".validate(obj).error === null\n" \o
  "}\n"

makeTypeGuard(name, type, schema) ==
  "export function " \o name \o "(obj: any): obj is T." \o type \o " {\n" \o
  "  return " \o schema \o ".validate(obj).error === null\n" \o
  "}\n"

\* a slip of stmt2joi: a statement of another kind is an error
stmt2joi_strict(S, node) ==
  LET identifier == getText(node.name)
      name == identifier \o S
      guard == makeTypeGuard("is" \o name, identifier, name)
  IN IF isInterfaceDeclaration(node)
     THEN plus(prepend("export const " \o name \o " = ",
                       propList2joi(S, node.members, 0)),
               "\n" \o guard)
     ELSE IF isTypeAliasDeclaration(node)
     THEN plus(prepend("export const " \o name \o " = ",
                       type2joi(S, node.type, FALSE, 0)),
               "\n" \o guard)
     ELSE Throw("Cannot convert statement yet")

stmt2joi(S, node) ==
  LET identifier == getText(node.name)
      name == identifier \o S
      guard == makeTypeGuard("is" \o name, identifier, name)
  IN IF isInterfaceDeclaration(node)
     THEN plus(prepend("export const " \o name \o " = ",
                       propList2joi(S, node.members, 0)),
               "\n" \o guard)
     ELSE IF isTypeAliasDeclaration(node)
     THEN plus(prepend("export const " \o name \o " = ",
                       type2joi(S, node.type, FALSE, 0)),
               "\n" \o guard)
     ELSE Null

\* the value of key in {...defaults, ...options}
spread(options_, key, default) ==
  IF \E p \in options_ : p[1] = key
  THEN (CHOOSE p \in options_ : p[1] = key)[2]
  ELSE default

\* const opts = { suffix: '', input: 'foo.ts', ...options }
mkOpts(options_) ==
  [suffix |-> spread(options_, "suffix", ""),
   input |-> spread(options_, "input", "foo.ts")]

\* a slip of line 141: an empty suffix leaves the previous one in place
setSUFFIX_keepPrevious(opts) ==
  IF opts.suffix = "" THEN SUFFIX ELSE opts.suffix

\* SUFFIX = opts.suffix
setSUFFIX(opts) == opts.suffix

\* ts.createSourceFile: the parser, external to the program
createSourceFile(txt_) == [statements |-> txt_]

\* a slip of ts2joi: a statement that throws is skipped like a null one
ifaces_isolated(S, statements) ==
  Str(join(SelectSeq([i \in DOMAIN statements |-> stmt2joi(S, statements[i])],
                     LAMBDA x : x.kind = "string"),
           "\n\n"))

\* source.statements.map(stmt2joi).filter(x => x !== null).join('\n\n')
ifaces(S, statements) ==
  joined(filterNotNull(map([i \in DOMAIN statements |->
                              stmt2joi(S, statements[i])])),
         "\n\n")

importLine(opts) ==
  LET fname == IF endsWith(opts.input, ".ts")
               THEN SubSeq(opts.input, 1, Len(opts.input) - 3)
               ELSE opts.input
  IN "// Automatically generated by tsjoi\n" \o
     "import Joi from 'joi'\n" \o
     "import * as T from './" \o fname \o "'\n" \o
     "\n"

\* lines 143-161, run with SUFFIX holding S: the completion of ts2joi
ts2joi_body(S, txt_, opts) ==
  LET source == createSourceFile(txt_)
  IN prepend(importLine(opts), ifaces(S, source.statements))

----------------------------------------------------------------------------
(* The inputs drawn.                                                       *)

\* the lists of at most n distinct elements of S
SeqUpTo(S, n) ==
  UNION {{f \in [1..k -> S] : \A i, j \in 1..k : i # j => f[i] # f[j]} :
           k \in 0..n}

StringKw == Keyword("StringKeyword", "string")
NumberKw == Keyword("NumberKeyword", "number")
BooleanKw == Keyword("BooleanKeyword", "boolean")
NullKw == Keyword("NullKeyword", "null")
Lit(s) == LiteralType(StringLiteral(s))
Ref(s) == TypeReference(Identifier(s))

\* type expressions without a rendered sub-expression
LeafTypes ==
  {StringKw, NumberKw, BooleanKw, NullKw,
   Keyword("AnyKeyword", "any"), Keyword("ObjectKeyword", "object"),
   Keyword("SymbolKeyword", "symbol"), Keyword("ThisKeyword", "this"),
   Keyword("VoidKeyword", "void"), Keyword("UndefinedKeyword", "undefined"),
   Keyword("NeverKeyword", "never"),
   Keyword("UnknownKeyword", "unknown"),
   Ref("Foo"), TypeReference(QualifiedName("NS.Foo")),
   Lit("a"), TupleType,
   UnionType(<<Lit("a"), Lit("b")>>),
   UnionType(<<Lit("b"), Lit("a"), Lit("c")>>),
   UnionType(<<NumberKw, BooleanKw>>),
   UnionType(<<Lit("a"), NullKw, Lit("b")>>),
   UnionType(<<StringKw, NullKw, NumberKw>>)}

\* the type expressions with one more level around those of S
Wrap(S) ==
  S \cup {ArrayType(t) : t \in S}
    \cup {UnionType(<<t, NullKw>>) : t \in S}
    \cup {UnionType(<<NullKw, t>>) : t \in S}
    \cup {TypeLiteral(<<PropertySignature(Identifier("x"), t, q)>>) :
            t \in S, q \in BOOLEAN}
    \cup {TypeLiteral(<<PropertySignature(StringLiteral("k-1"), t, FALSE),
                        PropertySignature(Identifier("y"), StringKw, TRUE)>>) :
            t \in S}

RECURSIVE TypeNodes(_)
TypeNodes(d) == IF d = 0 THEN LeafTypes ELSE Wrap(TypeNodes(d - 1))

Indents == {2 * i : i \in 0..MaxNest}
Suffixes == {"", "Schema"}

\* the properties drawn for prop2joi
Props ==
  {PropertySignature(Identifier("a"), t, q) :
     t \in TypeNodes(MaxDepth), q \in BOOLEAN}
  \cup {PropertySignature(Identifier("a"), NoType, q) : q \in BOOLEAN}
  \cup {PropertySignature(StringLiteral("k-1"), t, FALSE) : t \in LeafTypes}

\* the members drawn for propList2joi
Members ==
  {PropertySignature(Identifier("a"), StringKw, FALSE),
   PropertySignature(Identifier("b"), Ref("Foo"), TRUE),
   PropertySignature(Identifier("c"), NoType, FALSE),
   PropertySignature(StringLiteral("k-1"), NumberKw, FALSE),
   MethodSignature(Identifier("m")),
   PropertySignature(Identifier("e"), UnionType(<<NumberKw, BooleanKw>>), FALSE),
   PropertySignature(Identifier("o"),
     TypeLiteral(<<PropertySignature(Identifier("x"), StringKw, FALSE)>>),
     FALSE)}

RenderCalls ==
  {[fn |-> "prop2joi", args |-> [prop |-> p, indent |-> n]] :
     p \in Props, n \in Indents}
  \cup {[fn |-> "propList2joi", args |-> [members |-> ms, indent |-> n]] :
          ms \in SeqUpTo(Members, MaxMembers), n \in Indents}

\* the top-level statements of the sources drawn
Statements ==
  {InterfaceDeclaration("Foo",
     <<PropertySignature(Identifier("a"), StringKw, FALSE),
       PropertySignature(Identifier("b"), NumberKw, TRUE)>>),
   TypeAliasDeclaration("Bar", ArrayType(Ref("Foo"))),
   InterfaceDeclaration("Baz",
     <<PropertySignature(Identifier("f"), UnionType(<<Ref("Foo"), NullKw>>),
                         FALSE)>>),
   TypeAliasDeclaration("Bad", UnionType(<<NumberKw, BooleanKw>>)),
   InterfaceDeclaration("Worse",
     <<PropertySignature(Identifier("q"),
                         TypeReference(QualifiedName("NS.Foo")), FALSE)>>),
   ClassDeclaration("C",
     <<PropertySignature(Identifier("m"), TupleType, FALSE)>>),
   VariableStatement("v", UnionType(<<NumberKw, BooleanKw>>))}

Sources == SeqUpTo(Statements, MaxStatements)

Options ==
  {{}, {<<"suffix", "Schema">>}, {<<"input", "types.ts">>},
   {<<"suffix", "Joi">>, <<"input", "types">>}}

Inputs == {[txt |-> t, options |-> o] : t \in Sources, o \in Options}

\* the compilations run between two compilations of the first input
Others ==
  {[txt |-> <<TypeAliasDeclaration("Bar", ArrayType(Ref("Foo")))>>,
    options |-> {<<"suffix", "Schema">>}],
   [txt |-> <<TypeAliasDeclaration("Bad", UnionType(<<NumberKw, BooleanKw>>))>>,
    options |-> {<<"suffix", "Joi">>, <<"input", "types">>}],
   [txt |-> <<>>, options |-> {}]}

----------------------------------------------------------------------------
(* The process: calls of the exported ts2joi, lines 134-162.               *)

NoCall == [txt |-> <<>>, options |-> {}, result |-> NotCalled]

Init ==
  /\ SUFFIX = ""
  /\ txt = <<>>
  /\ options = {}
  /\ result = NotCalled
  /\ first = NoCall
  /\ before = ""
  /\ fn = "none"
  /\ args = [indent |-> 0]
  /\ ret = NotCalled

\* the calls made: any input first, then that input again or one of Others
Calls ==
  IF first = NoCall THEN Inputs
  ELSE Others \cup {[txt |-> first.txt, options |-> first.options]}

ts2joi(txt_, options_, outcome) ==
  LET opts == mkOpts(options_)
  IN /\ SUFFIX' = setSUFFIX(opts)
     /\ \E c \in {ts2joi_body(SUFFIX', txt_, opts)} :
          /\ c.kind = outcome
          /\ result' = c
          /\ first' = IF first = NoCall
                      THEN [txt |-> txt_, options |-> options_, result |-> c]
                      ELSE first
     /\ txt' = txt_
     /\ options' = options_
     /\ before' = SUFFIX
     /\ UNCHANGED <<fn, args, ret>>

Ts2joiReturn == \E c \in Calls : ts2joi(c.txt, c.options, "string")

Ts2joiThrow == \E c \in Calls : ts2joi(c.txt, c.options, "throw")

Next == Ts2joiReturn \/ Ts2joiThrow

Spec == Init /\ [][Next]_vars

----------------------------------------------------------------------------
(* The renderers called on their own: prop2joi and propList2joi.           *)

InitRender ==
  /\ SUFFIX \in Suffixes
  /\ txt = <<>>
  /\ options = {}
  /\ result = NotCalled
  /\ first = NoCall
  /\ before = ""
  /\ \E c \in RenderCalls : fn = c.fn /\ args = c.args
  /\ ret = NotCalled

\* the call completes with c, of the given kind
Render(f, c, outcome) ==
  /\ fn = f
  /\ ret = NotCalled
  /\ c.kind = outcome
  /\ ret' = c
  /\ UNCHANGED <<SUFFIX, txt, options, result, first, before, fn, args>>

Prop2joiReturn ==
  /\ fn = "prop2joi"
  /\ \E c \in {prop2joi(SUFFIX, args.prop, args.indent)} :
       Render("prop2joi", c, "string")

Prop2joiNull ==
  /\ fn = "prop2joi"
  /\ \E c \in {prop2joi(SUFFIX, args.prop, args.indent)} :
       Render("prop2joi", c, "null")

Prop2joiThrow ==
  /\ fn = "prop2joi"
  /\ \E c \in {prop2joi(SUFFIX, args.prop, args.indent)} :
       Render("prop2joi", c, "throw")

PropList2joiReturn ==
  /\ fn = "propList2joi"
  /\ \E c \in {propList2joi(SUFFIX, args.members, args.indent)} :
       Render("propList2joi", c, "string")

PropList2joiThrow ==
  /\ fn = "propList2joi"
  /\ \E c \in {propList2joi(SUFFIX, args.members, args.indent)} :
       Render("propList2joi", c, "throw")

NextRender ==
  \/ Prop2joiReturn
  \/ Prop2joiNull
  \/ Prop2joiThrow
  \/ PropList2joiReturn
  \/ PropList2joiThrow

SpecRender == InitRender /\ [][NextRender]_vars

----------------------------------------------------------------------------
(* Vocabulary of the properties.                                           *)

Contains(s, pat) ==
  \E i \in 1..(Len(s) - Len(pat) + 1) : SubSeq(s, i, i + Len(pat) - 1) = pat

StartsWith(s, pat) == Len(s) >= Len(pat) /\ SubSeq(s, 1, Len(pat)) = pat

\* the lines of a text: the pieces between its newline characters
Lines(s) ==
  LET nl == {i \in 1..Len(s) : SubSeq(s, i, i) = "\n"}
      pos(k) == CHOOSE i \in nl : Cardinality({j \in nl : j < i}) = k - 1
      n == Cardinality(nl)
  IN [k \in 1..(n + 1) |->
        SubSeq(s, IF k = 1 THEN 1 ELSE pos(k - 1) + 1,
                  IF k = n + 1 THEN Len(s) ELSE pos(k) - 1)]

\* the number of spaces a line starts with
LeadingSpaces(line) ==
  CHOOSE n \in 0..Len(line) :
    /\ \A i \in 1..n : SubSeq(line, i, i) = " "
    /\ n = Len(line) \/ SubSeq(line, n + 1, n + 1) # " "

RECURSIVE JoinStr(_, _)
JoinStr(strs, sep) ==
  IF Len(strs) = 0 THEN ""
  ELSE IF Len(strs) = 1 THEN strs[1]
  ELSE strs[1] \o sep \o JoinStr(Tail(strs), sep)

\* a member that is a property with a simple identifier name and a type
Survives(m) ==
  /\ m.kind = "PropertySignature"
  /\ m.name.kind = "Identifier"
  /\ m.type # NoType

PrimitiveKeywords ==
  {"any", "number", "object", "boolean", "string", "symbol", "this", "void",
   "undefined", "null", "never"}

IsNullType(tp) == tp.kind = "NullKeyword"

IsNullable(tp) ==
  /\ tp.kind = "UnionType"
  /\ Len(tp.types) = 2
  /\ IsNullType(tp.types[1]) \/ IsNullType(tp.types[2])

\* the member of a nullable union that is rendered
NonNull(tp) == IF IsNullType(tp.types[1]) THEN tp.types[2] ELSE tp.types[1]

IsStringEnum(tp) ==
  /\ tp.kind = "UnionType"
  /\ \A i \in DOMAIN tp.types :
       /\ tp.types[i].kind = "LiteralType"
       /\ tp.types[i].literal.kind = "StringLiteral"

\* the type expressions built only from the supported forms
RECURSIVE Supported(_)
Supported(tp) ==
  CASE tp.kind = "UnionType" ->
         \/ IsNullable(tp) /\ Supported(NonNull(tp))
         \/ ~IsNullable(tp) /\ IsStringEnum(tp)
    [] tp.kind = "ArrayType" -> Supported(tp.elementType)
    [] tp.kind = "TypeLiteral" ->
         \A i \in DOMAIN tp.members :
           Survives(tp.members[i]) => Supported(tp.members[i].type)
    [] tp.kind = "TypeReference" -> tp.typeName.kind = "Identifier"
    [] tp.kind \in {"TupleType", "LiteralType", "undefined"} -> FALSE
    [] OTHER -> tp.text \in PrimitiveKeywords

\* a declaration whose rendering raises the error
Raises(node) ==
  \/ /\ node.kind = "InterfaceDeclaration"
     /\ \E i \in DOMAIN node.members :
          Survives(node.members[i]) /\ ~Supported(node.members[i].type)
  \/ node.kind = "TypeAliasDeclaration" /\ ~Supported(node.type)

\* a declaration that is rendered to a schema binding and a guard
Produces(node) ==
  /\ node.kind \in {"InterfaceDeclaration", "TypeAliasDeclaration"}
  /\ ~Raises(node)

\* the suffix the last call of ts2joi asked for
AskedSuffix ==
  IF \E p \in options : p[1] = "suffix"
  THEN (CHOOSE p \in options : p[1] = "suffix")[2]
  ELSE ""

\* the header of the module the last call of ts2joi names
Header ==
  "// Automatically generated by tsjoi\nimport Joi from 'joi'\n"
  \o (IF <<"input", "types.ts">> \in options \/ <<"input", "types">> \in options
      THEN "import * as T from './types'\n"
      ELSE "import * as T from './foo'\n")
  \o "\n"

----------------------------------------------------------------------------
(* Properties of the renderers, under SpecRender.                          *)

\* the entry the object schema is to hold for a surviving member
Entry(m, indent) ==
  fill(indent + 2) \o m.name.escapedText \o ": "
  \o type2joi(SUFFIX, m.type, ~m.questionToken, indent + 2).value

\* C1: the object schema propList2joi returns holds exactly one entry
\* `name: renderedType` per member that is identifier-named and typed, in
\* input order, and a dropped member leaves nothing behind: no empty entry,
\* no separator, no line.
C1_ExactlyTheSurvivingEntries ==
  (fn = "propList2joi" /\ ret.kind = "string") =>
    LET ms == SelectSeq(args.members, Survives)
        entries == [i \in DOMAIN ms |-> Entry(ms[i], args.indent)]
    IN ret.value = "Joi.object({\n" \o JoinStr(entries, ",\n") \o "\n"
                   \o fill(args.indent) \o "})"

\* C3: rendering the type of a surviving property throws exactly when the
\* type, or a sub-expression it renders, is outside the supported forms (a
\* union that is neither nullable nor a string enumeration, a qualified
\* reference, another variant), and returns text otherwise.
C3_ThrowsIffUnsupported ==
  (fn = "prop2joi" /\ ret.kind # "none" /\ Survives(args.prop)) =>
    /\ ret.kind \in {"string", "throw"}
    /\ ret.kind = "throw" <=> ~Supported(args.prop.type)

C3_Witness ==
  /\ fn = "prop2joi"
  /\ ret.kind = "throw"
  /\ args.prop.type = ArrayType(UnionType(<<StringKw, NullKw, NumberKw>>))

\* C4: a two-member union with null, in either order, renders as its other
\* member T rendered non-required (at indent 0), then the allow-null
\* modifier, then the caller's required suffix, for every supported T.
C4_NullableIsInnerPlusAllowNull ==
  (/\ fn = "prop2joi"
   /\ ret.kind # "none"
   /\ Survives(args.prop)
   /\ IsNullable(args.prop.type)
   /\ Supported(NonNull(args.prop.type))) =>
    LET T == NonNull(args.prop.type)
        inner == type2joi(SUFFIX, T, FALSE, 0)
    IN /\ inner.kind = "string"
       /\ ~endsWith(inner.value, ".required()")
       /\ ret = Str(fill(args.indent) \o args.prop.name.escapedText \o ": "
                    \o inner.value \o ".allow(null)"
                    \o (IF args.prop.questionToken THEN "" ELSE ".required()"))

C4_Witness ==
  /\ fn = "prop2joi"
  /\ args.prop.type = UnionType(<<NullKw, ArrayType(StringKw)>>)
  /\ ~args.prop.questionToken
  /\ ret = Str(fill(args.indent)
               \o "a: Joi.array().items(Joi.string()).allow(null).required()")

\* C5: the rendered type of a surviving property ends with the required
\* marker exactly when the property has no optional marker.
C5_RequiredIffNotOptional ==
  (fn = "prop2joi" /\ ret.kind = "string") =>
    (endsWith(ret.value, ".required()") <=> ~args.prop.questionToken)

C5_Witness ==
  /\ fn = "prop2joi"
  /\ ret.kind = "string"
  /\ args.prop.questionToken
  /\ args.prop.type.kind = "TypeLiteral"
  /\ endsWith(ret.value, "})")

\* the lines from the i-th on keep the indentation rule, stack holding the
\* levels of the lines that opened the object schemas still open
RECURSIVE Indented(_, _, _)
Indented(lines, i, stack) ==
  IF i > Len(lines) THEN stack = <<>>
  ELSE LET line == lines[i]
           n == LeadingSpaces(line)
           rest == SubSeq(line, n + 1, Len(line))
       IN IF rest = "" THEN Indented(lines, i + 1, stack)
          ELSE IF StartsWith(rest, "})")
          THEN /\ stack # <<>>
               /\ n = Head(stack)
               /\ Indented(lines, i + 1, Tail(stack))
          ELSE /\ stack = <<>> \/ n = Head(stack) + 2
               /\ Indented(lines, i + 1,
                           IF endsWith(line, "Joi.object({")
                           THEN <<n>> \o stack ELSE stack)

\* C10: in the entry prop2joi returns, the property lines of every object
\* schema are indented 2 spaces deeper than the line that opens it and its
\* closing brace is at the level of that line, also for an object literal
\* under an array or a nullable union.
C10_NestedIndentation ==
  (fn = "prop2joi" /\ ret.kind = "string") =>
    Indented(Lines(ret.value), 1, <<>>)

----------------------------------------------------------------------------
(* Properties of the module compiler, under Spec.                          *)

\* C2: a module with a declaration that renders and a declaration whose
\* rendering raises, in either order, makes ts2joi throw the error of the
\* first declaration that raises: no text returns.
C2_WholeFileFails ==
  (/\ result.kind # "none"
   /\ \E i \in DOMAIN txt : Produces(txt[i])
   /\ \E i \in DOMAIN txt : Raises(txt[i])) =>
    LET i == CHOOSE j \in DOMAIN txt :
               Raises(txt[j]) /\ \A k \in 1..(j - 1) : ~Raises(txt[k])
    IN /\ result.kind = "throw"
       /\ result = stmt2joi(SUFFIX, txt[i])

C2_Witness ==
  /\ Len(txt) = 2
  /\ Produces(txt[1])
  /\ Raises(txt[2])
  /\ result.kind = "throw"

\* C6: the entries of the module follow the header in file order with
\* exactly one empty line between the closing line of one entry's guard and
\* the `export const` line of the next entry.
C6_OneBlankLineBetweenEntries ==
  result.kind = "string" =>
    LET entries == SelectSeq([i \in DOMAIN txt |-> stmt2joi(SUFFIX, txt[i])],
                             LAMBDA x : x.kind = "string")
        texts == [i \in DOMAIN entries |-> entries[i].value]
        lines == Lines(result.value)
    IN /\ StartsWith(result.value, Header)
       /\ \A i \in DOMAIN texts : Contains(result.value, texts[i])
       /\ \A k \in DOMAIN lines :
            (/\ StartsWith(lines[k], "export const ")
             /\ \E j \in 1..(k - 1) : StartsWith(lines[j], "export const ")) =>
              /\ lines[k - 1] = ""
              /\ lines[k - 2] = "}"

\* C7: compiling the first input of the process again, after any other
\* compilations, returns or throws what it did the first time.
C7_SameInputSameOutput ==
  (result.kind # "none" /\ txt = first.txt /\ options = first.options) =>
    result = first.result

C7_Witness ==
  /\ txt = first.txt
  /\ options = first.options
  /\ before = "Joi"
  /\ AskedSuffix = ""
  /\ result.kind = "string"
  /\ \E i \in DOMAIN txt : txt[i] = TypeAliasDeclaration("Bar", ArrayType(Ref("Foo")))

\* C8: with suffix S, a declaration Foo yields the binding Foo<S> and the
\* guard isFoo<S>, which asserts T.Foo and validates against Foo<S>; a
\* reference to Foo renders as Foo<S>, the name of the binding of Foo.
C8_NamesCarryTheSuffix ==
  result.kind = "string" =>
    \A i \in DOMAIN txt :
      Produces(txt[i]) =>
        LET Foo == txt[i].name.escapedText
            FooS == Foo \o AskedSuffix
        IN /\ Contains(result.value, "export const " \o FooS \o " = ")
           /\ Contains(result.value,
                "export function is" \o FooS \o "(obj: any): obj is T."
                \o Foo \o " {\n  return " \o FooS
                \o ".validate(obj).error === null\n}\n")
           /\ (Foo = "Bar") =>
                Contains(result.value,
                  "export const " \o FooS \o " = Joi.array().items(Foo"
                  \o AskedSuffix \o ")\n")
           /\ (Foo = "Baz") =>
                Contains(result.value,
                  "\n  f: Foo" \o AskedSuffix \o ".allow(null).required()\n")

C8_Witness ==
  /\ result.kind = "string"
  /\ AskedSuffix = "Schema"
  /\ Len(txt) = 2
  /\ txt[1].name.escapedText = "Foo"
  /\ txt[2].name.escapedText = "Bar"
  /\ Contains(result.value, "export const FooSchema = Joi.object({")
  /\ Contains(result.value, "export const BarSchema = Joi.array().items(FooSchema)")
  /\ Contains(result.value, "export function isFooSchema(obj: any): obj is T.Foo {")

\* a declaration that is neither an interface nor a type alias
OtherKind(node) ==
  node.kind \notin {"InterfaceDeclaration", "TypeAliasDeclaration"}

\* C9: a declaration of another kind adds nothing and never fails: the call
\* completes as it does on the source without those declarations, and a
\* source that holds nothing else compiles to exactly the header.
C9_OtherDeclarationsAreSkipped ==
  result.kind # "none" =>
    /\ result = ts2joi_body(SUFFIX, SelectSeq(txt, LAMBDA x : ~OtherKind(x)),
                            mkOpts(options))
    /\ (\A i \in DOMAIN txt : OtherKind(txt[i])) => result = Str(Header)

C9_Witness ==
  /\ txt = <<ClassDeclaration("C",
               <<PropertySignature(Identifier("m"), TupleType, FALSE)>>),
             VariableStatement("v", UnionType(<<NumberKw, BooleanKw>>))>>
  /\ result = Str(Header)

====
